---- MODULE Spec2Model ----
(***************************************************************************)
(* A model of the photo gallery's motion engine: the damped Spring solver, *)
(* the requestAnimationFrame-driven runAnimation loop, and the             *)
(* PhotosContainer / PhotoGallery components that drive both.              *)
(*                                                                         *)
(* Numbers.  JavaScript numbers are IEEE doubles.  They are modelled as    *)
(* fixed-point integers: the integer n stands for the real n / Scale, so   *)
(* that EPSILON (0.001) is EPSILON units and a value strictly between      *)
(* -EPSILON and EPSILON is "almost zero" without being zero.  The three    *)
(* non-finite doubles are the values PosInf, NegInf and NaN, and every     *)
(* arithmetic operator below treats them as IEEE 754 does.  Times are      *)
(* integers in milliseconds, as Date.getTime() returns them.               *)
(***************************************************************************)
EXTENDS Integers, Sequences, FiniteSets, TLC

\* src/unnamed/part_000:24  const EPSILON = 0.001, in fixed-point units.
EPSILON == 10

\* One unit of the fixed-point representation is 1 / Scale.
Scale == EPSILON * 1000

\* Magnitudes from Huge on are non-finite (a double overflows to Infinity).
Huge == 1000 * 1000 * 1000
PosInf == Huge
NegInf == -Huge
NaN == Huge + 1

IsNaN(a) == a = NaN
IsFinite(a) == a > NegInf /\ a < PosInf

Abs(a) == IF a < 0 THEN -a ELSE a
Sign(a) == IF a < 0 THEN -1 ELSE IF a > 0 THEN 1 ELSE 0

\* Clamp an exact finite result into the representable range.
Sat(a) == IF a >= Huge THEN PosInf ELSE IF a <= -Huge THEN NegInf ELSE a

\* a < b and a > b on doubles: false as soon as one side is NaN.
FLt(a, b) == ~IsNaN(a) /\ ~IsNaN(b) /\ a < b
FGt(a, b) == ~IsNaN(a) /\ ~IsNaN(b) /\ a > b

\* a + b on doubles.
FAdd(a, b) ==
  IF IsNaN(a) \/ IsNaN(b) THEN NaN
  ELSE IF ~IsFinite(a) /\ ~IsFinite(b) THEN (IF a = b THEN a ELSE NaN)
  ELSE IF ~IsFinite(a) THEN a
  ELSE IF ~IsFinite(b) THEN b
  ELSE Sat(a + b)

\* -a on doubles.
FNeg(a) == IF IsNaN(a) THEN NaN ELSE -a

\* a - b on doubles.
FSub(a, b) == FAdd(a, FNeg(b))

\* |a| * |b| / Scale for finite operands, without leaving TLC's integers:
\* a = qa * Scale + ra, b = qb * Scale + rb.
MulMag(a, b) ==
  LET qa == a \div Scale
      ra == a % Scale
      qb == b \div Scale
      rb == b % Scale
  IN  IF qa > 0 /\ qb > 0 /\ qa >= (Huge \div Scale) \div qb + 1
      THEN Huge
      ELSE Sat(qa * qb * Scale + qa * rb + ra * qb + (ra * rb) \div Scale)

\* a * b on doubles.
FMul(a, b) ==
  IF IsNaN(a) \/ IsNaN(b) THEN NaN
  ELSE IF ~IsFinite(a) \/ ~IsFinite(b)
       THEN (IF a = 0 \/ b = 0 THEN NaN
             ELSE IF Sign(a) = Sign(b) THEN PosInf ELSE NegInf)
  ELSE Sign(a) * Sign(b) * MulMag(Abs(a), Abs(b))

\* |a| * Scale / |b| for finite operands, b # 0, by long division.
DivMag(a, b) ==
  LET q == a \div b
      r == a % b
      frac == IF r <= (Huge \div Scale) * 2
              THEN (r * Scale) \div b
              ELSE r \div ((b \div Scale) + 1)
  IN  IF q >= Huge \div Scale THEN Huge ELSE Sat(q * Scale + frac)

\* a / b on doubles.  A zero divisor is signed in IEEE 754: negZero says
\* that b, when it is zero, is -0.
FDiv(a, b, negZero) ==
  IF IsNaN(a) \/ IsNaN(b) THEN NaN
  ELSE IF b = 0
       THEN (IF a = 0 THEN NaN
             ELSE IF (a > 0) = negZero THEN NegInf ELSE PosInf)
  ELSE IF ~IsFinite(a)
       THEN (IF ~IsFinite(b) THEN NaN
             ELSE IF Sign(a) = Sign(b) THEN PosInf ELSE NegInf)
  ELSE IF ~IsFinite(b) THEN 0
  ELSE Sign(a) * Sign(b) * DivMag(Abs(a), Abs(b))

\* The integer square root of n >= 0, by bisection on [lo, hi].
RECURSIVE ISqrt(_, _, _)
ISqrt(n, lo, hi) ==
  IF lo >= hi THEN lo
  ELSE LET mid == (lo + hi + 1) \div 2
       IN  IF mid <= n \div mid THEN ISqrt(n, mid, hi) ELSE ISqrt(n, lo, mid - 1)

\* Math.sqrt(a) for a finite a >= 0.
FSqrt(a) ==
  IF a <= (Huge \div Scale) * 2
  THEN ISqrt(a * Scale, 0, 46340)
  ELSE ISqrt(a, 0, 46340) * ISqrt(Scale, 0, Scale)

\* Integer division rounding toward zero.
TDiv(a, n) == Sign(a) * (Abs(a) \div n)

\* The Taylor series of e^y, sum of y^n / n!, from the term `term` (the n-th).
RECURSIVE ExpSeries(_, _, _)
ExpSeries(y, term, n) ==
  IF term = 0 THEN 0
  ELSE term + ExpSeries(y, TDiv(FMul(term, y), n + 1), n + 1)

\* e^y for y <= 0: halve the argument until the series converges fast,
\* then square back.
RECURSIVE ExpNeg(_)
ExpNeg(y) ==
  IF y < -(Scale * 40) THEN 0
  ELSE IF y < -(Scale \div 2)
       THEN LET h == ExpNeg(y \div 2) IN FMul(h, h)
       ELSE ExpSeries(y, Scale, 0)

\* Math.pow(Math.E, y).
FExp(y) ==
  IF IsNaN(y) THEN NaN
  ELSE IF y = PosInf THEN PosInf
  ELSE IF y = NegInf THEN 0
  ELSE IF y <= 0 THEN ExpNeg(y)
  ELSE FDiv(Scale, ExpNeg(-y), FALSE)

\* pi and 2 pi in fixed-point units.
Pi == (31416 * Scale) \div 10000
TwoPi == (62832 * Scale) \div 10000

\* The angle a brought into [-pi, pi].
Reduce(a) ==
  LET m == a % TwoPi IN IF m > Pi THEN m - TwoPi ELSE m

\* The alternating Taylor series shared by sine and cosine, from the n-th
\* term on: term * (-a^2) / ((n + 1) (n + 2)) is the next one.
RECURSIVE TrigSeries(_, _, _)
TrigSeries(a, term, n) ==
  IF term = 0 THEN 0
  ELSE term + TrigSeries(a, -TDiv(FMul(FMul(term, a), a), (n + 1) * (n + 2)), n + 2)

\* Math.cos(a) and Math.sin(a).
FCos(a) == IF ~IsFinite(a) THEN NaN ELSE TrigSeries(Reduce(a), Scale, 0)
FSin(a) == IF ~IsFinite(a) THEN NaN ELSE TrigSeries(Reduce(a), Reduce(a), 1)

(***************************************************************************)
(* Spring (src/unnamed/part_000, lines 35-216).  A spring is the record of *)
(* its fields _m, _k, _c, _solution, _endValue and _startTime.  The two    *)
(* closures of a solution are kept as the constants they capture: kind     *)
(* names the branch of _solve that built them ("null" before any solve,    *)
(* "snap" for the constant pair snap installs).                            *)
(***************************************************************************)

\* `if (!t)`: an omitted time argument, and a time of 0, are both falsy.
NoTime == 0

NullSolution == [kind |-> "null", c1 |-> 0, c2 |-> 0, r1 |-> 0, r2 |-> 0]
SnapSolution == [kind |-> "snap", c1 |-> 0, c2 |-> 0, r1 |-> 0, r2 |-> 0]

\* almostEqual(a, b) and almostZero(a).
almostEqual(a, b) == FGt(a, FSub(b, EPSILON)) /\ FLt(a, FAdd(b, EPSILON))
almostZero(a) == almostEqual(a, 0)

\* new Spring(springConstant, damping, mass).
NewSpring(springConstant, damping, mass) ==
  [m |-> mass, k |-> springConstant, c |-> damping,
   solution |-> NullSolution, endValue |-> 0, startTime |-> 0]

\* The constant c2 of the critically damped branch: velocity / (r * initial).
\* The product r * initial is -0 when exactly one factor is negative.
CriticalC2(r, initial, velocity) ==
  FDiv(velocity, FMul(r, initial), (r < 0) # (initial < 0))

\* _solve(initial, velocity): the branch is chosen by c^2 - 4mk.
Solve(s, initial, velocity) ==
  LET c == s.c
      m == s.m
      k == s.k
      cmk == FSub(FMul(c, c), FMul(FMul(4 * Scale, m), k))
  IN  IF cmk = 0
      THEN LET r == FDiv(FNeg(c), FMul(2 * Scale, m), FALSE)
           IN  [kind |-> "critical", c1 |-> initial,
                c2 |-> CriticalC2(r, initial, velocity), r1 |-> r, r2 |-> 0]
      ELSE IF FGt(cmk, 0)
      THEN LET r1 == FDiv(FSub(FNeg(c), FSqrt(cmk)), FMul(2 * Scale, m), FALSE)
               r2 == FDiv(FAdd(FNeg(c), FSqrt(cmk)), FMul(2 * Scale, m), FALSE)
               c2 == FDiv(FSub(velocity, FMul(r1, initial)), FSub(r2, r1), FALSE)
               c1 == FSub(initial, c2)
           IN  [kind |-> "over", c1 |-> c1, c2 |-> c2, r1 |-> r1, r2 |-> r2]
      ELSE LET w == FDiv(FSqrt(FSub(FMul(FMul(4 * Scale, m), k), FMul(c, c))),
                         FMul(2 * Scale, m), FALSE)
               r == FNeg(FMul(FDiv(c, 2 * Scale, FALSE), m))
               c1 == initial
               c2 == FDiv(FSub(velocity, FMul(r, initial)), w, FALSE)
           IN  [kind |-> "under", c1 |-> c1, c2 |-> c2, r1 |-> r, r2 |-> w]

\* solution.x(t), t in seconds.
SolX(sol, t) ==
  CASE sol.kind = "snap" -> 0
    [] sol.kind = "critical" ->
         FMul(FAdd(sol.c1, FMul(sol.c2, t)), FExp(FMul(sol.r1, t)))
    [] sol.kind = "over" ->
         FAdd(FMul(sol.c1, FExp(FMul(sol.r1, t))),
              FMul(sol.c2, FExp(FMul(sol.r2, t))))
    [] sol.kind = "under" ->
         FMul(FExp(FMul(sol.r1, t)),
              FAdd(FMul(sol.c1, FCos(FMul(sol.r2, t))),
                   FMul(sol.c2, FSin(FMul(sol.r2, t)))))

\* solution.dx(t), t in seconds.
SolDx(sol, t) ==
  CASE sol.kind = "snap" -> 0
    [] sol.kind = "critical" ->
         LET pow == FExp(FMul(sol.r1, t))
         IN  FAdd(FMul(FMul(sol.r1, FAdd(sol.c1, FMul(sol.c2, t))), pow),
                  FMul(sol.c2, pow))
    [] sol.kind = "over" ->
         FAdd(FMul(FMul(sol.c1, sol.r1), FExp(FMul(sol.r1, t))),
              FMul(FMul(sol.c2, sol.r2), FExp(FMul(sol.r2, t))))
    [] sol.kind = "under" ->
         LET power == FExp(FMul(sol.r1, t))
             cos == FCos(FMul(sol.r2, t))
             sin == FSin(FMul(sol.r2, t))
             w == sol.r2
         IN  FAdd(FMul(power, FSub(FMul(FMul(sol.c2, w), cos),
                                   FMul(FMul(sol.c1, w), sin))),
                  FMul(FMul(sol.r1, power),
                       FAdd(FMul(sol.c2, sin), FMul(sol.c1, cos))))

\* (t - this._startTime) / 1000.0: milliseconds to seconds.
Elapsed(s, t) == ((t - s.startTime) * Scale) \div 1000

\* x(dt) with dt given, and x() at the wall clock `clock`.
X(s, dt) == IF s.solution.kind # "null" THEN FAdd(s.endValue, SolX(s.solution, dt)) ELSE 0
XNow(s, clock) == X(s, Elapsed(s, clock))

\* endValue().
endValue(s) == s.endValue

\* dx(dt) with dt given, dx() and velocity() at the wall clock `clock`.
Dx(s, dt) == IF s.solution.kind # "null" THEN SolDx(s.solution, dt) ELSE 0
DxNow(s, clock) == Dx(s, Elapsed(s, clock))
velocity(s, clock) == Dx(s, Elapsed(s, clock))

\* `if (almostZero(a)) a = 0`.
ZeroIfAlmost(a) == IF almostZero(a) THEN 0 ELSE a

\* A setEnd without its two early returns: it re-solves on every call.
setEndAlwaysSolves(s, newEnd, vel, tArg, clock) ==
  LET t == IF tArg = NoTime THEN clock ELSE tArg
      hasSolution == s.solution.kind # "null"
      dt == Elapsed(s, t)
  IN  [s EXCEPT
         !.endValue = newEnd,
         !.solution =
           Solve(s,
                 FSub(IF hasSolution
                      THEN FAdd(ZeroIfAlmost(SolX(s.solution, dt)), s.endValue)
                      ELSE s.endValue,
                      newEnd),
                 IF hasSolution
                 THEN ZeroIfAlmost(IF almostZero(vel) THEN SolDx(s.solution, dt) ELSE vel)
                 ELSE vel),
         !.startTime = t]

\* setEnd from line 163 on, with the `position` and `velocity` the lines
\* before it computed: the second early return, then the new solution.
setEndFrom(s, newEnd, position, vel, t) ==
  IF s.solution.kind # "null" /\ almostZero(FSub(position, newEnd)) /\ almostZero(vel)
  THEN s
  ELSE [s EXCEPT !.endValue = newEnd,
                 !.solution = Solve(s, FSub(position, newEnd), vel),
                 !.startTime = t]

\* setEnd(endValue, velocity, t) at the wall clock `clock`: the spring after
\* the call.
setEnd(s, newEnd, vel, tArg, clock) ==
  LET t == IF tArg = NoTime THEN clock ELSE tArg
      dt == Elapsed(s, t)
  IN  IF newEnd = s.endValue /\ almostZero(vel) THEN s
      ELSE IF s.solution.kind # "null"
      THEN setEndFrom(s, newEnd,
                      FAdd(ZeroIfAlmost(SolX(s.solution, dt)), s.endValue),
                      ZeroIfAlmost(IF almostZero(vel) THEN SolDx(s.solution, dt) ELSE vel),
                      t)
      ELSE setEndFrom(s, newEnd, s.endValue, vel, t)

\* A snap that moves the equilibrium but keeps the solution in flight.
snapKeepsMotion(s, newEnd, clock) ==
  [s EXCEPT !.startTime = clock, !.endValue = newEnd,
            !.solution = IF s.solution.kind = "null" THEN SnapSolution ELSE s.solution]

\* snap(endValue) at the wall clock `clock`.
snap(s, newEnd, clock) ==
  [s EXCEPT !.startTime = clock, !.endValue = newEnd, !.solution = SnapSolution]

\* done(t) at the wall clock `clock`: x() and dx() are called without an
\* argument, so they read the wall clock.
done(s, tArg, clock) ==
  almostEqual(XNow(s, clock), s.endValue) /\ almostZero(DxNow(s, clock))

\* A reconfigure that re-solves also when the spring is done.
reconfigureAlwaysSolves(s, mass, springConstant, damping, clock) ==
  LET s1 == [s EXCEPT !.m = mass, !.k = springConstant, !.c = damping]
  IN  [s1 EXCEPT
         !.solution = Solve(s1, FSub(XNow(s1, clock), s1.endValue), DxNow(s1, clock)),
         !.startTime = clock]

\* reconfigure(mass, springConstant, damping) at the wall clock `clock`.
reconfigure(s, mass, springConstant, damping, clock) ==
  LET s1 == [s EXCEPT !.m = mass, !.k = springConstant, !.c = damping]
  IN  IF done(s1, NoTime, clock) THEN s1
      ELSE [s1 EXCEPT
              !.solution = Solve(s1, FSub(XNow(s1, clock), s1.endValue), DxNow(s1, clock)),
              !.startTime = clock]

(***************************************************************************)
(* The Spring on its own: a client calls setEnd, snap and reconfigure at   *)
(* arbitrary moments while the wall clock advances.                        *)
(***************************************************************************)

VARIABLES
  spring,   \* the Spring object
  now,      \* the wall clock, Date.getTime(), in milliseconds
  last,     \* the last call made on the spring, its arguments, the spring before it
  steps,    \* the number of steps taken so far
  handles,  \* the handle objects runAnimation created, in order of creation
  raf,      \* the frame requests pending with the host (requestAnimationFrame)
  nextToken,\* the id the host returns for the next frame request
  trace,    \* per handle: the callbacks invoked and the frames delivered so far
  modelDone,\* what done() of the driver's physics model answers at present
  container,\* the PhotosContainer's fields
  gallery,  \* the PhotoGallery's state
  viewport, \* breakpoint.viewport
  drag      \* the gesture in progress, as TouchUtils tracks it

springVars == <<spring, now, last, steps>>
driverVars == <<handles, raf, nextToken, trace, modelDone>>
galleryVars == <<container, gallery, viewport, drag>>
vars == <<spring, now, last, steps, handles, raf, nextToken, trace, modelDone,
          container, gallery, viewport, drag>>

\* The driver before any runAnimation.
DriverIdle ==
  /\ handles = <<>>
  /\ raf = {}
  /\ nextToken = 1
  /\ trace = <<>>
  /\ modelDone = FALSE

\* No gallery is mounted.
GalleryIdle ==
  /\ container = [offset |-> 0, startOffset |-> 0, minOffset |-> 0, maxOffset |-> 0,
                  animation |-> 0]
  /\ gallery = [selected |-> 0]
  /\ viewport = [width |-> 0]
  /\ drag = [active |-> FALSE, delta |-> 0, writes |-> {}]

\* The length of the runs explored.
MaxSteps == 4

\* (springConstant, damping, mass) in the three damping regimes:
\* c^2 < 4mk, c^2 = 4mk, c^2 > 4mk.
Configs ==
  { [k |-> 200 * Scale, c |-> 20 * Scale, m |-> Scale],
    [k |-> 100 * Scale, c |-> 20 * Scale, m |-> Scale],
    [k |-> 100 * Scale, c |-> 25 * Scale, m |-> Scale] }

\* The end values, velocities and clock advances (ms) a client may use.
EndValues == {0, Scale}
Velocities == {0, EPSILON \div 2, 2 * Scale}
Ticks == {100, 1000}
StartClock == 1000 * 1000

Call(op, e, v, t) == [op |-> op, e |-> e, v |-> v, t |-> t, pre |-> spring]

SpringInit ==
  /\ \E cfg \in Configs : spring = NewSpring(cfg.k, cfg.c, cfg.m)
  /\ now = StartClock
  /\ last = [op |-> "new", e |-> 0, v |-> 0, t |-> StartClock, pre |-> spring]
  /\ steps = 0
  /\ DriverIdle
  /\ GalleryIdle

\* Time passes.
Tick ==
  /\ steps < MaxSteps
  /\ \E d \in Ticks : now' = now + d
  /\ last' = Call("tick", 0, 0, now')
  /\ steps' = steps + 1
  /\ UNCHANGED spring

\* spring.setEnd(e, v, t), with t omitted or given as the current time.
SetEnd ==
  /\ steps < MaxSteps
  /\ \E e \in EndValues, v \in Velocities, t \in {NoTime, now} :
       /\ spring' = setEnd(spring, e, v, t, now)
       /\ last' = Call("setEnd", e, v, IF t = NoTime THEN now ELSE t)
  /\ steps' = steps + 1
  /\ UNCHANGED now

\* spring.snap(e).
Snap ==
  /\ steps < MaxSteps
  /\ \E e \in EndValues :
       /\ spring' = snap(spring, e, now)
       /\ last' = Call("snap", e, 0, now)
  /\ steps' = steps + 1
  /\ UNCHANGED now

\* spring.reconfigure(mass, springConstant, damping).
Reconfigure ==
  /\ steps < MaxSteps
  /\ \E cfg \in Configs :
       /\ spring' = reconfigure(spring, cfg.m, cfg.k, cfg.c, now)
       /\ last' = Call("reconfigure", cfg, 0, now)
  /\ steps' = steps + 1
  /\ UNCHANGED now

SpringNext ==
  \/ Tick /\ UNCHANGED <<driverVars, galleryVars>>
  \/ SetEnd /\ UNCHANGED <<driverVars, galleryVars>>
  \/ Snap /\ UNCHANGED <<driverVars, galleryVars>>
  \/ Reconfigure /\ UNCHANGED <<driverVars, galleryVars>>

SpecSpring == SpringInit /\ [][SpringNext]_vars

(***************************************************************************)
(* The animation loop (src/unnamed/part_000, lines 226-257).  A handle is  *)
(* the object {id, cancelled}; onFinish records whether the caller passed  *)
(* an onFinish callback.  The host keeps the pending frame requests: each  *)
(* is the token requestAnimationFrame returned and the handle bound into   *)
(* the callback.  trace[h] is the history of handle h: log lists the       *)
(* callbacks invoked, each with handle.cancelled at that moment, and       *)
(* delivered counts the frames the host delivered.                         *)
(***************************************************************************)

\* The numbers of handles and of frame requests explored.
MaxHandles == 2
MaxTokens == 3

\* const handle = {id: 0, cancelled: false}.
NewHandle(hasOnFinish) == [id |-> 0, cancelled |-> FALSE, onFinish |-> hasOnFinish]
\* firstDone is what physicsModel.done() answers in the first frame.
NewTrace(firstDone) == [log |-> <<>>, delivered |-> 0, firstDone |-> firstDone]

\* A frame that schedules the next frame whenever the handle is not
\* cancelled, and finishes whenever the model is done.
processFrameSchedulesAndFinishes(cancelledAtEntry, doneAnswer, cancelledInFrame, hasOnFinish) ==
  IF cancelledAtEntry
  THEN [onFrame |-> FALSE, schedule |-> FALSE, onFinish |-> FALSE]
  ELSE [onFrame |-> TRUE,
        schedule |-> ~cancelledInFrame,
        onFinish |-> doneAnswer /\ hasOnFinish]

\* A frame that never invokes onFinish.
processFrameNeverFinishes(cancelledAtEntry, doneAnswer, cancelledInFrame, hasOnFinish) ==
  IF cancelledAtEntry
  THEN [onFrame |-> FALSE, schedule |-> FALSE, onFinish |-> FALSE]
  ELSE [onFrame |-> TRUE,
        schedule |-> ~doneAnswer /\ ~cancelledInFrame,
        onFinish |-> FALSE]

\* processFrame(handle, physicsModel, onFrame, onFinish): what one frame
\* does, given handle.cancelled on entry, the answer of physicsModel.done()
\* and handle.cancelled after onFrame returned (onFrame may cancel).
processFrame(cancelledAtEntry, doneAnswer, cancelledInFrame, hasOnFinish) ==
  IF cancelledAtEntry
  THEN [onFrame |-> FALSE, schedule |-> FALSE, onFinish |-> FALSE]
  ELSE [onFrame |-> TRUE,
        schedule |-> ~doneAnswer /\ ~cancelledInFrame,
        onFinish |-> ~(~doneAnswer /\ ~cancelledInFrame) /\ hasOnFinish]

\* cancel(handle): the handle after the call.
cancel(h) == [h EXCEPT !.cancelled = TRUE]

\* cancel(handle): the host's requests after cancelAnimationFrame(handle.id),
\* which cancel calls when handle.id is not 0.
cancelAnimationFrame(requests, h) ==
  IF h.id # 0 THEN {q \in requests : q.token # h.id} ELSE requests

\* The callbacks a frame invoked, in the order processFrame invokes them,
\* each with the value of handle.cancelled when it was invoked.
Invoked(out, cancelledAtEntry, cancelledInFrame) ==
  (IF out.onFrame
   THEN <<[cb |-> "onFrame", cancelled |-> cancelledAtEntry]>> ELSE <<>>)
  \o (IF out.onFinish
      THEN <<[cb |-> "onFinish", cancelled |-> cancelledAtEntry \/ cancelledInFrame]>>
      ELSE <<>>)

\* The driver's state as one value: the handles, the host's requests, the
\* next token and the traces.
Driver == [handles |-> handles, raf |-> raf, nextToken |-> nextToken, trace |-> trace]
SetDriver(d) ==
  /\ handles' = d.handles
  /\ raf' = d.raf
  /\ nextToken' = d.nextToken
  /\ trace' = d.trace

\* handle.cancel() on handle i of the driver d.
cancelHandle(d, i) ==
  [d EXCEPT !.raf = cancelAnimationFrame(d.raf, d.handles[i]),
            !.handles[i] = cancel(d.handles[i])]

\* One call of processFrame on handle i of the driver d, with the outcome
\* out: the handle is cancelled if onFrame cancelled it, and the next frame
\* is requested from the host (handle.id = requestAnimationFrame(...)).
RunFrame(d, i, out, cancelledInFrame, isDelivery) ==
  LET d1 == IF cancelledInFrame THEN cancelHandle(d, i) ELSE d
      d2 == IF out.schedule
            THEN [d1 EXCEPT !.handles[i].id = d.nextToken,
                            !.raf = @ \cup {[token |-> d.nextToken, h |-> i]},
                            !.nextToken = @ + 1]
            ELSE d1
  IN  [d2 EXCEPT
         !.trace[i].log = @ \o Invoked(out, d.handles[i].cancelled, cancelledInFrame),
         !.trace[i].delivered = @ + (IF isDelivery THEN 1 ELSE 0)]

\* A runAnimation that requests the first frame from the host instead of
\* running it.
runAnimationDeferred(d, doneAnswer, hasOnFinish) ==
  [d EXCEPT !.handles = Append(@, [NewHandle(hasOnFinish) EXCEPT !.id = d.nextToken]),
            !.raf = @ \cup {[token |-> d.nextToken, h |-> Len(d.handles) + 1]},
            !.nextToken = @ + 1,
            !.trace = Append(@, NewTrace(doneAnswer))]

\* runAnimation(physicsModel, onFrame, onFinish) on the driver d: the new
\* handle is the last of the result.  The first frame runs inside the call,
\* before the handle is returned; doneAnswer is what physicsModel.done()
\* answers in it.
runAnimation(d, doneAnswer, hasOnFinish) ==
  RunFrame([d EXCEPT !.handles = Append(@, NewHandle(hasOnFinish)),
                     !.trace = Append(@, NewTrace(doneAnswer))],
           Len(d.handles) + 1,
           processFrame(FALSE, doneAnswer, FALSE, hasOnFinish),
           FALSE, FALSE)

\* The host calls the frame callback of the request q: the request is
\* consumed and the bound processFrame runs.
deliverFrame(d, q, doneAnswer, cancelledInFrame) ==
  RunFrame([d EXCEPT !.raf = @ \ {q}], q.h,
           processFrame(d.handles[q.h].cancelled, doneAnswer, cancelledInFrame,
                        d.handles[q.h].onFinish),
           cancelledInFrame, TRUE)

(***************************************************************************)
(* The driver on its own: a client runs animations of a physics model      *)
(* whose done() changes over time, and cancels handles at any moment,      *)
(* also from inside onFrame.                                               *)
(***************************************************************************)

SpringIdle ==
  /\ spring = NewSpring(0, 0, Scale)
  /\ now = StartClock
  /\ last = [op |-> "new", e |-> 0, v |-> 0, t |-> StartClock, pre |-> spring]
  /\ steps = 0

DriverInit ==
  /\ handles = <<>>
  /\ raf = {}
  /\ nextToken = 1
  /\ trace = <<>>
  /\ modelDone \in BOOLEAN
  /\ SpringIdle
  /\ GalleryIdle

\* runAnimation(physicsModel, onFrame, onFinish).
RunAnimation ==
  /\ Len(handles) < MaxHandles
  /\ \E hasOnFinish \in BOOLEAN :
       LET d == runAnimation(Driver, modelDone, hasOnFinish)
       IN  d.nextToken <= MaxTokens + 1 /\ SetDriver(d)
  /\ UNCHANGED modelDone

\* The host delivers the pending frame of handle i.  The onFrame callback
\* may call cancel() on its handle.
DeliverFrameOf(i) ==
  /\ \E q \in raf, cancelsInFrame \in BOOLEAN :
       /\ q.h = i
       /\ LET d == deliverFrame(Driver, q, modelDone,
                                ~handles[i].cancelled /\ cancelsInFrame)
          IN  d.nextToken <= MaxTokens + 1 /\ SetDriver(d)
  /\ UNCHANGED modelDone

DeliverFrame == \E i \in 1..Len(handles) : DeliverFrameOf(i)

\* handle.cancel(), between frames.
Cancel ==
  /\ \E i \in 1..Len(handles) : SetDriver(cancelHandle(Driver, i))
  /\ UNCHANGED modelDone

\* The physics model moves on: done() changes its answer.
ModelChange ==
  /\ modelDone' = ~modelDone
  /\ UNCHANGED <<handles, raf, nextToken, trace>>

DriverNext ==
  \/ RunAnimation /\ UNCHANGED <<springVars, galleryVars>>
  \/ DeliverFrame /\ UNCHANGED <<springVars, galleryVars>>
  \/ Cancel /\ UNCHANGED <<springVars, galleryVars>>
  \/ ModelChange /\ UNCHANGED <<springVars, galleryVars>>

SpecDriver == DriverInit /\ [][DriverNext]_vars

\* The host delivers every frame it was asked for.
SpecDriverFair ==
  SpecDriver /\ \A i \in 1..MaxHandles :
                  WF_vars(DeliverFrameOf(i) /\ UNCHANGED <<springVars, galleryVars>>)

(***************************************************************************)
(* Properties of the animation loop.                                       *)
(***************************************************************************)

Created(i) == i <= Len(handles)
Pending(i) == \E q \in raf : q.h = i

\* The number of invocations of callback cb in a log.
Count(log, cb) == Cardinality({j \in 1..Len(log) : log[j].cb = cb})
Finished(i) == Created(i) /\ Count(trace[i].log, "onFinish") > 0

\* C1: no callback of a handle is invoked once cancel() was called on it,
\* whether cancel() is called between frames or from inside onFrame.
C1_NoCallbackAfterCancel ==
  \A i \in 1..Len(handles) :
    \A j \in 1..Len(trace[i].log) : ~trace[i].log[j].cancelled

\* C2 as stated: a handle cancelled before the host delivered any frame has
\* had no onFrame and no onFinish.
C2_NoCallbackBeforeFirstFrame ==
  \A i \in 1..Len(handles) :
    (handles[i].cancelled /\ trace[i].delivered = 0) => trace[i].log = <<>>

\* C2 amended: a handle cancelled before the host delivered any frame has
\* had exactly one onFrame, invoked inside runAnimation, followed by one
\* onFinish exactly if done() was true then and an onFinish was passed; none
\* of them was invoked after the cancel, and no frame request is pending.
C2_OnlyTheSynchronousFrame ==
  \A i \in 1..Len(handles) :
    (handles[i].cancelled /\ trace[i].delivered = 0) =>
      /\ trace[i].log =
           <<[cb |-> "onFrame", cancelled |-> FALSE]>>
           \o (IF trace[i].firstDone /\ handles[i].onFinish
               THEN <<[cb |-> "onFinish", cancelled |-> FALSE]>> ELSE <<>>)
      /\ ~Pending(i)

\* C2 witness: a handle whose first frame was requested from the host was
\* cancelled before the host delivered it.
C2_Witness ==
  \E i \in 1..Len(handles) :
    /\ handles[i].cancelled
    /\ trace[i].delivered = 0
    /\ handles[i].id # 0
    /\ ~trace[i].firstDone

\* C3: when done() is true at the first query, runAnimation has invoked
\* onFrame once and then onFinish once, and has requested no frame.
C3_DoneAtOnce ==
  \A i \in 1..Len(handles) :
    (trace[i].firstDone /\ handles[i].onFinish) =>
      /\ trace[i].log = <<[cb |-> "onFrame", cancelled |-> FALSE],
                          [cb |-> "onFinish", cancelled |-> FALSE]>>
      /\ ~Pending(i)
      /\ handles[i].id = 0
      /\ trace[i].delivered = 0

\* C3 witness: an animation of a model that was done at once, while another
\* handle has a frame pending.
C3_Witness ==
  \E i \in 1..Len(handles) :
    /\ trace[i].firstDone
    /\ handles[i].onFinish
    /\ raf # {}

\* C4: onFinish is invoked at most once per handle, it is the last callback
\* invoked for the handle, and no frame request of the handle is pending
\* once it was invoked.
C4_FinishIsFinal ==
  \A i \in 1..Len(handles) :
    LET log == trace[i].log
    IN  /\ Count(log, "onFinish") <= 1
        /\ Count(log, "onFinish") = 1 =>
             /\ log[Len(log)].cb = "onFinish"
             /\ ~Pending(i)

\* C4 witness: a handle finished in a frame the host delivered, after at
\* least two onFrame calls.
C4_Witness ==
  \E i \in 1..Len(handles) :
    /\ Finished(i)
    /\ trace[i].delivered >= 1
    /\ Count(trace[i].log, "onFrame") >= 2

\* C5: every frame delivered for a handle that is not cancelled invokes
\* onFrame exactly once; and a handle that is never cancelled, whose frames
\* the host always delivers, and whose model's done() eventually stays true,
\* eventually has its onFinish invoked.
C5_FramesThenFinish ==
  /\ [][\A i \in 1..Len(handles) :
          (trace'[i].delivered = trace[i].delivered + 1 /\ ~handles[i].cancelled)
            => Count(trace'[i].log, "onFrame") = Count(trace[i].log, "onFrame") + 1]_vars
  /\ \A i \in 1..MaxHandles :
       (/\ <>(Created(i) /\ handles[i].onFinish)
        /\ [](Created(i) => ~handles[i].cancelled)
        /\ [](Pending(i) => <>~Pending(i))
        /\ <>[]modelDone)
       => <>Finished(i)

\* C5 witness: a handle never cancelled finished after the host delivered
\* two frames for it.
C5_Witness ==
  \E i \in 1..Len(handles) :
    /\ Finished(i)
    /\ ~handles[i].cancelled
    /\ ~trace[i].firstDone
    /\ trace[i].delivered >= 2

(***************************************************************************)
(* Properties of the Spring.                                               *)
(***************************************************************************)

\* The spring s is in motion: it has a solved solution and is not done.
InMotion(s, clock) ==
  /\ s.solution.kind \in {"critical", "over", "under"}
  /\ ~done(s, NoTime, clock)

\* Elapsed times (seconds) and clock advances (ms) at which a spring is sampled.
SampleDts == {0, 1, Scale \div 10, Scale, 30 * Scale}
SampleMs == {0, 1, 100, 1000, 30000}

\* |a - b| < EPSILON.
Near(a, b) == FLt(FSub(a, b), EPSILON) /\ FGt(FSub(a, b), -EPSILON)

\* C8: after snap(v), in whatever state the spring was, endValue() is v and
\* at every elapsed time x is exactly v and dx exactly 0, whether the time
\* is passed in or read from the clock.
C8_SnapExact ==
  last.op = "snap" =>
    /\ endValue(spring) = last.e
    /\ \A dt \in SampleDts : X(spring, dt) = last.e /\ Dx(spring, dt) = 0
    /\ \A d \in SampleMs :
         /\ XNow(spring, now + d) = last.e
         /\ DxNow(spring, now + d) = 0
         /\ velocity(spring, now + d) = 0

\* C8 witness: a spring in motion towards another end value was snapped.
C8_Witness ==
  /\ last.op = "snap"
  /\ InMotion(last.pre, now)
  /\ last.pre.endValue # last.e
  /\ XNow(last.pre, now) # last.e

\* C9: on a spring settled at v, setEnd(v, 0), once or twice in a row at
\* the same instant, changes nothing of the spring.
C9_SetEndIdempotent ==
  (/\ last.op = "setEnd"
   /\ last.v = 0
   /\ last.e = last.pre.endValue
   /\ done(last.pre, NoTime, now))
  => /\ spring = last.pre
     /\ setEnd(spring, last.e, 0, NoTime, now) = last.pre
     /\ setEnd(spring, last.e, 0, last.t, now) = last.pre

\* C9 witness: setEnd(v, 0) was called on a spring that had moved to v and
\* settled there.
C9_Witness ==
  /\ last.op = "setEnd"
  /\ last.v = 0
  /\ last.e = last.pre.endValue
  /\ last.e # 0
  /\ last.pre.solution.kind \in {"critical", "over", "under"}
  /\ done(last.pre, NoTime, now)

\* The absolute position of spring s at the time t (ms).
PositionAt(s, t) == X(s, Elapsed(s, t))

\* C10: across every setEnd the absolute position moves by less than
\* EPSILON: the position just after (the spring after the call, at the time
\* of the call) is within EPSILON of the position just before (the spring
\* before the call, at that time).
C10_PositionContinuous ==
  last.op = "setEnd" =>
    Near(PositionAt(spring, last.t), PositionAt(last.pre, last.t))

\* C10 outside the critically damped branch of _solve.
C10_PositionContinuousUncritical ==
  (/\ last.op = "setEnd"
   /\ spring.solution.kind # "critical"
   /\ IsFinite(last.pre.solution.c1)
   /\ IsFinite(last.pre.solution.c2))
    => Near(PositionAt(spring, last.t), PositionAt(last.pre, last.t))

\* The velocity of spring s at the time t (ms).
VelocityAt(s, t) == Dx(s, Elapsed(s, t))

\* The error of a velocity in the fixed-point representation: a constant
\* of a solution is exact to one unit only, and dx multiplies it by a rate.
VelocityRounding == 3 * EPSILON

\* |a - b| < EPSILON for two velocities, up to the rounding of the
\* representation.
NearVelocity(a, b) ==
  /\ FLt(FSub(a, b), EPSILON + VelocityRounding)
  /\ FGt(FSub(a, b), -(EPSILON + VelocityRounding))

\* C11: across every setEnd the velocity changes by less than EPSILON: the
\* velocity just after (the spring after the call, at the time of the call)
\* is within EPSILON of the velocity just before (the spring before the
\* call, at that time).
C11_VelocityContinuous ==
  last.op = "setEnd" =>
    NearVelocity(VelocityAt(spring, last.t), VelocityAt(last.pre, last.t))

\* C11 outside the critically damped branch of _solve, for a setEnd that
\* passes no velocity of its own.
C11_VelocityContinuousUncritical ==
  (/\ last.op = "setEnd"
   /\ almostZero(last.v)
   /\ spring.solution.kind # "critical"
   /\ IsFinite(last.pre.solution.c1)
   /\ IsFinite(last.pre.solution.c2))
    => NearVelocity(VelocityAt(spring, last.t), VelocityAt(last.pre, last.t))

\* The spring s is settled at the time t (ms): its position at t is within
\* EPSILON of endValue and its velocity at t within EPSILON of zero.
SettledAt(s, t) ==
  almostEqual(PositionAt(s, t), s.endValue) /\ almostZero(VelocityAt(s, t))

\* C12: done(atTime) is true iff the spring is settled at atTime, whatever
\* the wall clock at the moment of the call.
C12_DoneAtTime ==
  \A d \in SampleMs : done(spring, now + d, now) <=> SettledAt(spring, now + d)

\* C13: on a freshly constructed spring, whatever the clock, x() is
\* endValue(), dx() is 0 and done() is false.
C13_FreshSpring ==
  last.op = "new" =>
    \A d \in SampleMs :
      /\ XNow(spring, now + d) = endValue(spring)
      /\ DxNow(spring, now + d) = 0
      /\ ~done(spring, NoTime, now + d)

\* C13 without done(): x() and dx() of a fresh spring.
C13_FreshSpringAtRest ==
  last.op = "new" =>
    \A d \in SampleMs :
      /\ XNow(spring, now + d) = endValue(spring)
      /\ DxNow(spring, now + d) = 0

\* C14: reconfigure installs the constants and never changes endValue; on a
\* spring that is done at the call it leaves the solution and startTime as
\* they were; otherwise the solution is the one solved, with the new
\* constants, from the position and velocity at the call, and startTime is
\* the time of the call.
C14_ReconfigureFrame ==
  last.op = "reconfigure" =>
    /\ spring.endValue = last.pre.endValue
    /\ spring.m = last.e.m /\ spring.k = last.e.k /\ spring.c = last.e.c
    /\ IF done(last.pre, NoTime, last.t)
       THEN /\ spring.solution = last.pre.solution
            /\ spring.startTime = last.pre.startTime
       ELSE /\ spring.startTime = last.t
            /\ spring.solution =
                 Solve(spring, FSub(XNow(last.pre, last.t), last.pre.endValue),
                       DxNow(last.pre, last.t))

\* C14 witness: a spring in motion was reconfigured into another damping
\* regime, some time after its last setEnd.
C14_Witness ==
  /\ last.op = "reconfigure"
  /\ InMotion(last.pre, last.t)
  /\ last.t > last.pre.startTime
  /\ spring.solution.kind # last.pre.solution.kind
  /\ IsFinite(spring.solution.c2)

\* C15: a critically damped solution has finite constants, and finite x and
\* dx at every elapsed time.
C15_CriticalFinite ==
  spring.solution.kind = "critical" =>
    /\ IsFinite(spring.solution.c1)
    /\ IsFinite(spring.solution.c2)
    /\ \A dt \in SampleDts : IsFinite(X(spring, dt)) /\ IsFinite(Dx(spring, dt))

\* Delays (ms) after a setEnd by which a spring has come to rest.
SettleMs == {10000, 30000, 60000}

\* C16: after a setEnd, in each damping regime, done() is true from some
\* time on and stays true, and x is within EPSILON of endValue: sampled at
\* the delays SettleMs after the call.
C16_Converges ==
  last.op = "setEnd" =>
    \A d \in SettleMs :
      /\ done(spring, NoTime, last.t + d)
      /\ Near(XNow(spring, last.t + d), endValue(spring))

\* C16 for the solutions whose constants are finite.
C16_ConvergesFinite ==
  (/\ last.op = "setEnd"
   /\ IsFinite(spring.solution.c1)
   /\ IsFinite(spring.solution.c2))
  => \A d \in SettleMs :
       /\ done(spring, NoTime, last.t + d)
       /\ Near(XNow(spring, last.t + d), endValue(spring))

\* C22: after setEnd(e, velocity, t) returns, in any spring state and for
\* any velocity, endValue() is e.
C22_SetEndTargets ==
  last.op = "setEnd" => endValue(spring) = last.e

(***************************************************************************)
(* PhotosContainer (src/src/components/PhotosContainer.js) and its owner   *)
(* PhotoGallery (src/src/components/PhotoGallery.js).  An event handler    *)
(* runs to completion, so each is an operator from the world before it to  *)
(* the world after it.  The world w holds the spring, the clock, the       *)
(* animation loop's state d, the container's fields c, the gallery's       *)
(* selected index (which the container reads as props.selected), the       *)
(* viewport width, the writers of c.offset since the gesture began, and    *)
(* the onChange calls the handler made.  c.animation is the index of the   *)
(* handle this.animation refers to, 0 when it is undefined.                *)
(***************************************************************************)

\* The number of photos of the album and the length of the runs explored.
NPhotos == 3
MaxEvents == 5

\* PhotosContainer.defaultProps.
overshootDamping == (75 * Scale) \div 100
springConstant == 230 * Scale
damping == 30 * Scale
swipeVelocityThreshold == 500 * Scale
indicateBoundaryVelocity == 2000 * Scale

\* An omitted overrideSelected argument.
Undefined == -1

\* Viewport widths, pointer deltas and release velocities (px, px/s).
Widths == {320 * Scale, 375 * Scale}
Deltas == {-200 * Scale, 100 * Scale, 500 * Scale}
EndVelocities == {-800 * Scale, 0, 800 * Scale}

World ==
  [spring |-> spring, clock |-> now, d |-> Driver, c |-> container,
   selected |-> gallery.selected, width |-> viewport.width,
   writes |-> drag.writes, changes |-> <<>>]

\* `!velocity`.
Falsy(v) == v = 0 \/ IsNaN(v)

\* setup().
setup(w) ==
  [w EXCEPT !.c.minOffset = 0, !.c.maxOffset = (NPhotos - 1) * w.width]

\* The part of update from line 170 on, without `this.animation.cancel()`.
animateKeepsAnimation(w, overrideSelected) ==
  [w EXCEPT
     !.d = runAnimation(@, done(w.spring, NoTime, w.clock), TRUE),
     !.c.offset = XNow(w.spring, w.clock),
     !.c.animation = Len(w.d.handles) + 1,
     !.writes = @ \cup {"onFrame"},
     !.selected = IF overrideSelected # Undefined /\ overrideSelected # w.selected
                  THEN overrideSelected ELSE @,
     !.changes = IF overrideSelected # Undefined /\ overrideSelected # w.selected
                 THEN Append(@, overrideSelected) ELSE @]

\* update from line 170 on, the spring's setEnd being done: this.animation
\* is cancelled and runAnimation starts a new handle, the next of w.d.  The
\* first frame runs inside runAnimation: onFrame writes this.offset, and
\* onFinish, if the spring is done already, clears this.animation before the
\* returned handle is assigned to it.  onChange is the owner's
\* setState({selected}).
animate(w, overrideSelected) ==
  [w EXCEPT
     !.d = runAnimation(IF w.c.animation # 0 THEN cancelHandle(@, w.c.animation) ELSE @,
                        done(w.spring, NoTime, w.clock), TRUE),
     !.c.offset = XNow(w.spring, w.clock),
     !.c.animation = Len(w.d.handles) + 1,
     !.writes = @ \cup {"onFrame"},
     !.selected = IF overrideSelected # Undefined /\ overrideSelected # w.selected
                  THEN overrideSelected ELSE @,
     !.changes = IF overrideSelected # Undefined /\ overrideSelected # w.selected
                 THEN Append(@, overrideSelected) ELSE @]

\* An update without the dontInterrupt return.
updateAlwaysInterrupts(w, overrideSelected, vel) ==
  LET actualCurrent == IF overrideSelected # Undefined THEN overrideSelected ELSE w.selected
      offset == actualCurrent * w.width
  IN  animate([w EXCEPT !.spring = setEnd(@, offset, vel, NoTime, w.clock)],
              overrideSelected)

\* update(overrideSelected, velocity).
update(w, overrideSelected, vel) ==
  LET actualCurrent == IF overrideSelected # Undefined THEN overrideSelected ELSE w.selected
      offset == actualCurrent * w.width
      dontInterrupt == endValue(w.spring) = offset /\ Falsy(vel)
  IN  IF dontInterrupt THEN w
      ELSE animate([w EXCEPT !.spring = setEnd(@, offset, vel, NoTime, w.clock)],
                   overrideSelected)

\* componentDidMount(): the spring is created and snapped to 0.
componentDidMount(w) ==
  LET sp == snap(NewSpring(springConstant, damping, Scale), 0, w.clock)
  IN  update(setup([w EXCEPT !.spring = sp, !.c.offset = 0]), Undefined, 0)

\* componentDidUpdate() and onWindowResize().
componentDidUpdate(w) == update(setup(w), Undefined, 0)
onWindowResize(w) == update(setup(w), Undefined, 0)

\* onTouchStart.
onTouchStart(w) ==
  [w EXCEPT !.d = IF w.c.animation # 0 THEN cancelHandle(@, w.c.animation) ELSE @,
            !.c.startOffset = w.c.offset]

\* onTouchMove(delta), delta.x = deltaX.
onTouchMove(w, deltaX) ==
  LET c == w.c
      undamped == FSub(c.startOffset, deltaX)
      dx == IF FLt(undamped, c.minOffset)
            THEN FAdd(deltaX, FMul(FSub(FSub(c.minOffset, c.startOffset), deltaX),
                                   overshootDamping))
            ELSE IF FGt(undamped, c.maxOffset)
            THEN FAdd(deltaX, FMul(FSub(FSub(c.maxOffset, c.startOffset), deltaX),
                                   overshootDamping))
            ELSE deltaX
  IN  [w EXCEPT !.c.offset = FSub(c.startOffset, dx),
                !.writes = @ \cup {"onTouchMove"}]

\* Math.floor and Math.ceil of a / b for finite a and b > 0.
Floor(a, b) == a \div b
Ceil(a, b) == -((-a) \div b)

\* Math.max(Math.min(a, hi), lo).
Clamp(a, lo, hi) ==
  LET m == IF a < hi THEN a ELSE hi IN IF m > lo THEN m ELSE lo

\* onTouchEnd(delta, velocity), delta.x = deltaX, velocity.x = velX.
onTouchEnd(w, deltaX, velX) ==
  LET w1 == [w EXCEPT !.spring = snap(w.spring, w.c.offset, w.clock)]
      passedThreshold ==
        \/ Abs(deltaX) > w.width \div 2
        \/ Abs(velX) > swipeVelocityThreshold
      offset == Clamp(w.c.offset, w.c.minOffset, w.c.maxOffset)
      nextPhotoIndex == IF velX > 0 THEN Floor(offset, w.width) ELSE Ceil(offset, w.width)
  IN  IF passedThreshold
      THEN update(w1, nextPhotoIndex, -velX)
      ELSE update(w1, Undefined, 0)

\* indicateLowerBoundary() and indicateUpperBoundary().
indicateLowerBoundary(w) ==
  update(w, Undefined, FSub(velocity(w.spring, w.clock), indicateBoundaryVelocity))
indicateUpperBoundary(w) ==
  update(w, Undefined, FAdd(velocity(w.spring, w.clock), indicateBoundaryVelocity))

\* PhotoGallery: hasNext(), hasPrev().
hasNext(w) == w.selected < NPhotos - 1
hasPrev(w) == w.selected > 0

\* An onShowNext that does not ask hasNext().
onShowNextUnguarded(w) == componentDidUpdate([w EXCEPT !.selected = @ + 1])

\* PhotoGallery: onShowPrev and onShowNext.  setState re-renders the
\* gallery, and the container's componentDidUpdate runs with the new props.
onShowPrev(w) ==
  IF hasPrev(w)
  THEN componentDidUpdate([w EXCEPT !.selected = @ - 1])
  ELSE indicateLowerBoundary(w)
onShowNext(w) ==
  IF hasNext(w)
  THEN componentDidUpdate([w EXCEPT !.selected = @ + 1])
  ELSE indicateUpperBoundary(w)

\* The re-render that follows a handler in which onChange called setState.
AfterHandler(w) == IF w.changes # <<>> THEN componentDidUpdate(w) ELSE w

\* One frame of handle q.h, isDone being the answer of this.spring.done():
\* onFrame is `this.offset = this.spring.x()`, onFinish is
\* `this.animation = undefined`.
frameOf(w, q, isDone) ==
  LET out == processFrame(w.d.handles[q.h].cancelled, isDone, FALSE, TRUE)
  IN  [w EXCEPT
         !.d = deliverFrame(@, q, isDone, FALSE),
         !.c.offset = IF out.onFrame THEN XNow(w.spring, w.clock) ELSE @,
         !.c.animation = IF out.onFinish THEN 0 ELSE @,
         !.writes = IF out.onFrame THEN @ \cup {"onFrame"} ELSE @]

\* The host delivers the frame request q of an animation the container
\* started.
containerFrame(w, q) == frameOf(w, q, done(w.spring, NoTime, w.clock))

(***************************************************************************)
(* The gallery: user input, window resizes, re-renders, the clock and the  *)
(* host's frames, in any order.                                            *)
(***************************************************************************)

\* The world before anything is mounted, in a viewport of the given width.
Blank(width) ==
  [spring |-> NewSpring(springConstant, damping, Scale),
   clock |-> StartClock,
   d |-> [handles |-> <<>>, raf |-> {}, nextToken |-> 1, trace |-> <<>>],
   c |-> [offset |-> 0, startOffset |-> 0, minOffset |-> 0, maxOffset |-> 0,
          animation |-> 0],
   selected |-> 0, width |-> width, writes |-> {}, changes |-> <<>>]

\* The state is the world w.
Mounted(w) ==
  /\ viewport = [width |-> w.width]
  /\ spring = w.spring
  /\ handles = w.d.handles
  /\ raf = w.d.raf
  /\ nextToken = w.d.nextToken
  /\ trace = w.d.trace
  /\ container = w.c
  /\ gallery = [selected |-> w.selected]
  /\ last = [op |-> "mount", e |-> <<>>, v |-> 0, t |-> StartClock, pre |-> w.spring]

\* The state after the handler op that led to the world w; active and delta
\* are the gesture after it.
SetWorld(w, op, active, delta) ==
  /\ spring' = w.spring
  /\ SetDriver(w.d)
  /\ container' = w.c
  /\ gallery' = [selected |-> w.selected]
  /\ viewport' = [width |-> w.width]
  /\ drag' = [active |-> active, delta |-> delta, writes |-> w.writes]
  /\ last' = [op |-> op, e |-> w.changes, v |-> 0, t |-> now, pre |-> spring]
  /\ steps' = steps + 1
  /\ UNCHANGED <<now, modelDone>>

Init ==
  /\ now = StartClock
  /\ steps = 0
  /\ modelDone = FALSE
  /\ drag = [active |-> FALSE, delta |-> 0, writes |-> {}]
  /\ \E width \in Widths : Mounted(componentDidMount(Blank(width)))

TouchStart ==
  /\ steps < MaxEvents
  /\ ~drag.active
  /\ SetWorld(onTouchStart([World EXCEPT !.writes = {}]), "touchStart", TRUE, 0)

TouchMove ==
  /\ steps < MaxEvents
  /\ drag.active
  /\ \E deltaX \in Deltas :
       SetWorld(onTouchMove(World, deltaX), "touchMove", TRUE, deltaX)

TouchEnd ==
  /\ steps < MaxEvents
  /\ drag.active
  /\ \E velX \in EndVelocities :
       SetWorld(AfterHandler(onTouchEnd(World, drag.delta, velX)), "touchEnd", FALSE, 0)

ShowPrev ==
  /\ steps < MaxEvents
  /\ SetWorld(onShowPrev(World), "showPrev", drag.active, drag.delta)

ShowNext ==
  /\ steps < MaxEvents
  /\ SetWorld(onShowNext(World), "showNext", drag.active, drag.delta)

\* The window is resized to another width.
WindowResize ==
  /\ steps < MaxEvents
  /\ \E width \in Widths \ {viewport.width} :
       SetWorld(onWindowResize([World EXCEPT !.width = width]), "resize",
                drag.active, drag.delta)

\* The gallery re-renders for another reason (its controls hide or show).
Rerender ==
  /\ steps < MaxEvents
  /\ SetWorld(componentDidUpdate(World), "render", drag.active, drag.delta)

\* The host delivers a frame of one of the container's animations.
Frame ==
  /\ steps < MaxEvents
  /\ \E q \in raf :
       SetWorld(containerFrame(World, q), "frame", drag.active, drag.delta)

\* Time passes.
ClockTick ==
  /\ steps < MaxEvents
  /\ \E ms \in Ticks : now' = now + ms
  /\ steps' = steps + 1
  /\ last' = [op |-> "tick", e |-> <<>>, v |-> 0, t |-> now', pre |-> spring]
  /\ UNCHANGED <<spring, driverVars, galleryVars>>

Next ==
  \/ TouchStart
  \/ TouchMove
  \/ TouchEnd
  \/ ShowPrev
  \/ ShowNext
  \/ WindowResize
  \/ Rerender
  \/ Frame
  \/ ClockTick

Spec == Init /\ [][Next]_vars

(***************************************************************************)
(* Properties of the gallery.                                              *)
(***************************************************************************)

\* Handle i is live: not cancelled, with a frame request pending.
Live(i) == ~handles[i].cancelled /\ Pending(i)

\* C6: at most one animation handle of the container is live, the live
\* handle is the one this.animation refers to, and a step that starts a new
\* handle leaves no earlier handle live.
C6_OneLiveHandle ==
  /\ [](/\ Cardinality({i \in 1..Len(handles) : Live(i)}) <= 1
        /\ \A i \in 1..Len(handles) : Live(i) => container.animation = i)
  /\ [][Len(handles') > Len(handles) =>
          \A i \in 1..Len(handles) : ~(handles'[i].cancelled = FALSE /\ \E q \in raf' : q.h = i)]_vars

\* C6 witness: update() started an animation while the previous one was
\* live; the previous one is cancelled and the new one is live.
C6_Witness ==
  \E i, j \in 1..Len(handles) :
    /\ i < j
    /\ handles[i].cancelled
    /\ Count(trace[i].log, "onFinish") = 0
    /\ Live(j)

\* C7: while a gesture is in progress (after touch start, before touch end)
\* no onFrame of an animation runs: only onTouchMove writes the offset.
C7_NoFrameWhileDragging ==
  drag.active => "onFrame" \notin drag.writes

\* C17: when a handler's update(overrideSelected, velocity) has called
\* onChange, the animation that update started (the newest handle) has
\* finished: the spring is done and the handle's onFinish ran.
C17_ChangeAfterFinish ==
  (last.op = "touchEnd" /\ last.e # <<>>) =>
    /\ Finished(Len(handles))
    /\ done(spring, NoTime, now)

\* The offset o is what a drag to the undamped offset u may show within the
\* boundaries lo and hi: u itself inside them, and otherwise a value between
\* the boundary crossed and u.
DampedTowards(o, u, lo, hi) ==
  IF u < lo THEN u <= o /\ o <= lo
  ELSE IF u > hi THEN hi <= o /\ o <= u
  ELSE o = u

\* C18: after a touch move of a drag that started at a startOffset within
\* [minOffset, maxOffset], the offset is the undamped offset
\* startOffset - delta.x inside the boundaries, and lies between the
\* boundary crossed and the undamped offset beyond them.
C18_OvershootDamped ==
  (/\ last.op = "touchMove"
   /\ container.startOffset >= container.minOffset
   /\ container.startOffset <= container.maxOffset)
  => DampedTowards(container.offset, FSub(container.startOffset, drag.delta),
                   container.minOffset, container.maxOffset)

\* C18 for a drag that started on the boundary it crosses.
C18_OvershootDampedFromBoundary ==
  (/\ last.op = "touchMove"
   /\ \/ FSub(container.startOffset, drag.delta) >= container.minOffset
      \/ container.startOffset = container.minOffset
   /\ \/ FSub(container.startOffset, drag.delta) <= container.maxOffset
      \/ container.startOffset = container.maxOffset)
  => DampedTowards(container.offset, FSub(container.startOffset, drag.delta),
                   container.minOffset, container.maxOffset)

\* C19: a re-render or a window resize, whose update() passes no velocity,
\* on a spring whose endValue is the target offset already (selected times
\* the viewport width), changes nothing of the spring, cancels no handle,
\* starts none, and calls no onChange.
C19_DontInterrupt ==
  [][(/\ last'.op \in {"render", "resize"}
      /\ endValue(spring) = gallery.selected * viewport'.width)
     => /\ spring' = spring
        /\ handles' = handles
        /\ raf' = raf
        /\ nextToken' = nextToken
        /\ trace' = trace
        /\ container'.animation = container.animation
        /\ gallery' = gallery
        /\ last'.e = <<>>]_vars

\* C19 witness: the container re-rendered while its animation towards the
\* selected photo was under way with a frame pending.
C19_Witness ==
  /\ last.op = "render"
  /\ endValue(last.pre) = gallery.selected * viewport.width
  /\ gallery.selected > 0
  /\ InMotion(spring, now)
  /\ \E i \in 1..Len(handles) : Live(i)

\* C20: the gallery's selected index is always one of 0 .. n-1, and a prev
\* at index 0 or a next at index n-1 leaves it unchanged.
C20_SelectedInRange ==
  /\ [](gallery.selected \in 0..(NPhotos - 1))
  /\ [][(\/ last'.op = "showPrev" /\ gallery.selected = 0
         \/ last'.op = "showNext" /\ gallery.selected = NPhotos - 1)
        => gallery'.selected = gallery.selected]_vars

\* C20 witness: next was asked for at the last photo, the upper boundary
\* was indicated instead, and the index stayed.
C20_Witness ==
  /\ last.op = "showNext"
  /\ endValue(last.pre) = (NPhotos - 1) * viewport.width
  /\ gallery.selected = NPhotos - 1
  /\ InMotion(spring, now)

\* C20 witness of a swipe: a release called onChange and the index moved.
C20_SwipeWitness ==
  /\ last.op = "touchEnd"
  /\ last.e # <<>>
  /\ gallery.selected = last.e[Len(last.e)]

\* C21: whenever no drag is in progress (every onChange is applied by the
\* owner within the handler that called it), the spring's endValue is the
\* selected index times the viewport width.
C21_SettlesOnSelected ==
  ~drag.active => endValue(spring) = gallery.selected * viewport.width

\* C21 for a handler that runs update() at a later instant than the one the
\* spring's motion started at (or on a spring without a solution).
C21_SettlesAfterLaterHandler ==
  [][(/\ last'.op \in {"touchEnd", "showPrev", "showNext", "resize", "render"}
      /\ ~drag'.active
      /\ (spring.solution.kind = "null" \/ now > spring.startTime))
     => endValue(spring') = gallery'.selected * viewport'.width]_vars

====
